---- MODULE Spec2Model ----
(***************************************************************************)
(* A model of df-setup (src/src/main.py): discovery of "dot" directories   *)
(* under a dotfiles root, per-platform script resolution, selection of     *)
(* the Dots a Config names, and the install-then-setup executor.           *)
(*                                                                         *)
(* A file name is the sequence of its "."-separated segments:              *)
(* <<"setup","sh">> is setup.sh, <<"setup">> is setup, <<"","setup">> is   *)
(* .setup.  None (no script) is the empty sequence, which names no file.   *)
(***************************************************************************)
EXTENDS Naturals, Integers, Sequences, FiniteSets, TLC

VARIABLES
    fs,           \* the dotfiles root: directory name -> root entry
    root_ok,      \* whether the dotfiles root resolves (resolve(strict=True))
    os,           \* platform.system()
    argc,         \* len(sys.argv)
    apps,         \* config.to_setup, a sequence of App
    pc,           \* position of main()
    dots,         \* the Dot objects get_dots returned (the heap of Dots)
    to_setup,     \* apply_config.to_setup: references (indexes) into dots
    idx,          \* setup_dots: 1-based position of the for loop over to_setup
    failed,       \* setup_dots.failed: references into dots
    succeeded,    \* setup_dots.succeeded: references into dots
    result,       \* what apply_config returned: <<failed, succeeded>>, or <<>>
    runs,         \* log of the Dot.setup() calls made, in order
    stdout,       \* lines printed
    exit_status,  \* the process's exit status, -1 while it runs
    cache,        \* functools.cache entry of get_dots for the root
    calls,        \* number of get_dots calls made so far
    changes,      \* number of changes to the root since the last get_dots call
    sets          \* number of property-setter calls made on the Dots

vars == <<fs, root_ok, os, argc, apps, pc, dots, to_setup, idx, failed,
          succeeded, result, runs, stdout, exit_status, cache, calls, changes,
          sets>>

-----------------------------------------------------------------------------
(* Bounds of the model *)

MaxApps == 2        \* longest Config.to_setup
MaxArgc == 3        \* largest len(sys.argv)
MaxFiles == 3       \* most entries in a dot directory (discovery runs)
MaxChanges == 2     \* most changes to the root between get_dots calls
MaxCalls == 2       \* most get_dots calls in one process (cache runs)
MaxSets == 1        \* most property-setter calls between get_dots and apply_config

-----------------------------------------------------------------------------
(* Files and directories *)

None == <<>>

\* Names an entry of a dot directory may have.
ChildNames ==
    { <<"setup", "sh">>, <<"setup", "py">>, <<"setup", "ps1">>, <<"setup">>,
      <<"setup", "tar", "gz">>, <<"install", "sh">>, <<"install", "py">>,
      <<"install", "ps1">>, <<"nested">> }

\* Names of the files a sub-directory of a dot directory may hold.
InnerNames == { <<"setup", "sh">> }

NoChild == [kind |-> "absent", children |-> {}]
RegFile == [kind |-> "file", children |-> {}]
SubDir(inner) == [kind |-> "dir", children |-> inner]

ChildEntries == {NoChild, RegFile} \cup { SubDir(i) : i \in SUBSET InnerNames }

EmptyDir == [n \in ChildNames |-> NoChild]

\* A directory holding exactly the regular files named in `files`.
DirOf(files) == [n \in ChildNames |-> IF n \in files THEN RegFile ELSE NoChild]

\* Root entries: nothing, a regular file, or a directory with its contents.
RootAbsent == [kind |-> "absent", content |-> EmptyDir]
RootFile == [kind |-> "file", content |-> EmptyDir]
RootDir(content) == [kind |-> "dir", content |-> content]

\* Names of the entries of the dotfiles root, and their order under sorted().
DirNames == {"bash", "vim"}
AppNames == {"bash", "vim", "zsh"}
SortedNames == <<"bash", "vim", "zsh">>
Rank(name) == CHOOSE i \in 1..Len(SortedNames) : SortedNames[i] = name

\* Path.iterdir(): the names present in a directory.
IterDir(content) == { n \in ChildNames : content[n].kind # "absent" }

\* Path.is_file() of an entry of a directory.
IsFile(content, n) == content[n].kind = "file"

\* A stem that cuts the name at its first "." instead of its last.
StemToFirstDot(name) == <<name[1]>>

\* PurePath.stem: the name without its last suffix; a name whose only "." is
\* its first character, or that ends with ".", has no suffix.
Stem(name) ==
    IF /\ Len(name) >= 2
       /\ name[Len(name)] # ""
       /\ ~(Len(name) = 2 /\ name[1] = "")
    THEN SubSeq(name, 1, Len(name) - 1)
    ELSE name

-----------------------------------------------------------------------------
(* Dot *)

\* The platform-native extension Dot.__get_script accepts beside "py".
NativeExt(system) == IF system = "Windows" THEN "ps1" ELSE "sh"

\* Dot.__get_script: the one regular file named <name>.<native> or <name>.py.
Matches(content, name, system) ==
    { f \in IterDir(content) :
        /\ IsFile(content, f)
        /\ (f = <<name, NativeExt(system)>> \/ f = <<name, "py">>) }

\* The path of the entry `file` of the directory `dir` of the root: the
\* directory's name followed by the segments of the file's name.
JoinPath(dir, file) == <<dir>> \o file

\* A resolution that settles for the first candidate when several match.
GetScriptFirstMatch(dir, content, name, system) ==
    LET matches == Matches(content, name, system)
    IN  IF matches = {} THEN None ELSE JoinPath(dir, CHOOSE f \in matches : TRUE)

GetScript(dir, content, name, system) ==
    LET matches == Matches(content, name, system)
    IN  IF Cardinality(matches) # 1 THEN None
        ELSE JoinPath(dir, CHOOSE f \in matches : TRUE)

\* Dot.__init__
NewDot(name, content, system) ==
    [ name           |-> name,
      install_script |-> GetScript(name, content, "install", system),
      setup_script   |-> GetScript(name, content, "setup", system),
      to_install     |-> FALSE ]

-----------------------------------------------------------------------------
(* Discovery *)

\* The condition of get_dots' comprehension on one root entry.
Qualifies(entry) ==
    /\ entry.kind = "dir"
    /\ \E f \in IterDir(entry.content) :
          IsFile(entry.content, f) /\ Stem(f) = <<"setup">>

RECURSIVE SortNames(_)
SortNames(S) ==
    IF S = {} THEN <<>>
    ELSE LET m == CHOOSE x \in S : \A y \in S : Rank(x) <= Rank(y)
         IN  <<m>> \o SortNames(S \ {m})

\* The body of get_dots: scan the root, sort, build the Dots.
ScanDots(root, system) ==
    LET dirs == { d \in DOMAIN root : Qualifies(root[d]) }
        order == SortNames(dirs)
    IN  [ i \in 1..Len(order) |-> NewDot(order[i], root[order[i]].content, system) ]

\* functools.cache around get_dots, for the one root key: a hit returns the
\* list stored by the first call, a miss scans and stores.
NoCache == [hit |-> FALSE, value |-> <<>>]

CachedGetDots(c, root, system) ==
    IF c.hit
    THEN [value |-> c.value, cache |-> c]
    ELSE LET ds == ScanDots(root, system)
         IN  [value |-> ds, cache |-> [hit |-> TRUE, value |-> ds]]

-----------------------------------------------------------------------------
(* Selector: apply_config.get_dots_from_config *)

\* A selector that takes every Dot for every App, whatever their names.
NameMatchesAlways(app, dot) == TRUE

\* The test of the inner loop: app.name == dot.name
NameMatches(app, dot) == app.name = dot.name

\* The inner loop, over config.to_setup, for the Dot at heap index d.
RECURSIVE AppLoop(_, _, _, _)
AppLoop(st, d, cfg, j) ==
    IF j > Len(cfg) THEN st
    ELSE AppLoop(IF NameMatches(cfg[j], st.dots[d])
                 THEN [ dots     |-> [st.dots EXCEPT ![d].to_install = cfg[j].to_install],
                        to_setup |-> Append(st.to_setup, d) ]
                 ELSE st,
                 d, cfg, j + 1)

\* The outer loop, over dots.
RECURSIVE DotLoop(_, _, _)
DotLoop(st, cfg, d) ==
    IF d > Len(st.dots) THEN st
    ELSE DotLoop(AppLoop(st, d, cfg, 1), cfg, d + 1)

GetDotsFromConfig(cfg, ds) == DotLoop([dots |-> ds, to_setup |-> <<>>], cfg, 1)

-----------------------------------------------------------------------------
(* Executor: Dot.setup and apply_config.setup_dots *)

ExitCodes == {0, 1}

\* subprocess.run(script, check=True): a zero exit returns a CompletedProcess,
\* a non-zero exit raises CalledProcessError.
Run(exit) ==
    IF exit = 0 THEN [raised |-> FALSE, value |-> "CompletedProcess"]
    ELSE [raised |-> TRUE, value |-> "CalledProcessError"]

\* Dot._install
Install(dot, exit) ==
    IF dot.install_script # None THEN Run(exit)
    ELSE [raised |-> FALSE, value |-> "None"]

\* A setup that goes on to the setup script whatever the install step did.
DotSetupIgnoringInstall(dot, install_exit, setup_exit) ==
    LET try_install == dot.to_install /\ dot.install_script # None
        installed == IF ~try_install THEN "not_run"
                     ELSE IF install_exit = 0 THEN "ok" ELSE "failed"
    IN  IF dot.setup_script # None
        THEN [ install |-> installed,
               setup   |-> IF setup_exit = 0 THEN "ok" ELSE "failed",
               raised  |-> Run(setup_exit).raised,
               value   |-> Run(setup_exit).value ]
        ELSE [ install |-> installed, setup |-> "not_run",
               raised |-> FALSE, value |-> "None" ]

\* A setup that, with no setup script, returns what the install step returned.
DotSetupReturnsInstallResult(dot, install_exit, setup_exit) ==
    LET try_install == dot.to_install /\ dot.install_script # None
        install_result == Install(dot, install_exit)
        installed == IF ~try_install THEN "not_run"
                     ELSE IF install_exit = 0 THEN "ok" ELSE "failed"
    IN  IF try_install /\ install_result.raised
        THEN [ install |-> installed, setup |-> "not_run",
               raised |-> TRUE, value |-> install_result.value ]
        ELSE IF dot.setup_script # None
        THEN [ install |-> installed,
               setup   |-> IF setup_exit = 0 THEN "ok" ELSE "failed",
               raised  |-> Run(setup_exit).raised,
               value   |-> Run(setup_exit).value ]
        ELSE [ install |-> installed, setup |-> "not_run",
               raised |-> FALSE,
               value |-> IF try_install THEN install_result.value ELSE "None" ]

\* Dot.setup, given the exit codes its scripts would end with.  The outcome
\* says what was invoked, and what setup() returned or raised.
DotSetup(dot, install_exit, setup_exit) ==
    LET try_install == dot.to_install /\ dot.install_script # None
        install_result == Install(dot, install_exit)
        installed == IF ~try_install THEN "not_run"
                     ELSE IF install_exit = 0 THEN "ok" ELSE "failed"
    IN  IF try_install /\ install_result.raised
        THEN [ install |-> installed, setup |-> "not_run",
               raised |-> TRUE, value |-> install_result.value ]
        ELSE IF try_install /\ install_result.value \in {"None", "CalledProcessError"}
        THEN [ install |-> installed, setup |-> "not_run",
               raised |-> FALSE, value |-> install_result.value ]
        ELSE IF dot.setup_script # None
        THEN [ install |-> installed,
               setup   |-> IF setup_exit = 0 THEN "ok" ELSE "failed",
               raised  |-> Run(setup_exit).raised,
               value   |-> Run(setup_exit).value ]
        ELSE [ install |-> installed, setup |-> "not_run",
               raised |-> FALSE, value |-> "None" ]

\* The scripts an execution of Dot.setup handed to subprocess.run, in order.
Invoked(dot, out) ==
    (IF out.install # "not_run" THEN <<dot.install_script>> ELSE <<>>)
    \o (IF out.setup # "not_run" THEN <<dot.setup_script>> ELSE <<>>)

\* The classification setup_dots makes of a returned result.
Classify(f, s, d, value) ==
    IF value = "CalledProcessError" THEN [failed |-> Append(f, d), succeeded |-> s]
    ELSE IF value = "CompletedProcess" THEN [failed |-> f, succeeded |-> Append(s, d)]
    ELSE [failed |-> f, succeeded |-> s]

\* postflight's output
RECURSIVE NamesOf(_, _)
NamesOf(ds, refs) ==
    IF refs = <<>> THEN <<>>
    ELSE <<ds[Head(refs)].name>> \o NamesOf(ds, Tail(refs))

PostflightLines(ds, f, s) ==
    (IF Len(f) > 0
     THEN <<"The following applications failed to install or setup:">> \o NamesOf(ds, f)
     ELSE <<>>)
    \o
    (IF Len(s) > 0
     THEN <<"The following applications succeeded setup:">> \o NamesOf(ds, s)
     ELSE <<>>)

-----------------------------------------------------------------------------
(* Inputs *)

Systems == {"Linux", "Darwin", "Windows"}

Apps == [name : AppNames, to_install : BOOLEAN]

Configs == UNION { [1..n -> Apps] : n \in 0..MaxApps }

\* Dot directories of the program runs: a setup script alone, with an install
\* script, an extension-less "setup" beside an install script (a Dot with no
\* setup script), and an install script alone (not a Dot).
MainDirs ==
    { RootAbsent,
      RootDir(DirOf({<<"setup", "sh">>})),
      RootDir(DirOf({<<"setup", "sh">>, <<"install", "sh">>})),
      RootDir(DirOf({<<"setup">>, <<"install", "sh">>})),
      RootDir(DirOf({<<"install", "sh">>})) }

\* Dot directories of the discovery runs: up to MaxFiles entries of any kind.
ScanContents ==
    { c \in [ChildNames -> ChildEntries] : Cardinality(IterDir(c)) <= MaxFiles }

\* Files the cache runs add to and remove from a dot directory.
ChangeNames == { <<"setup", "sh">>, <<"setup", "py">>, <<"install", "sh">> }

Idle ==
    /\ root_ok = TRUE
    /\ argc = 1
    /\ apps = <<>>
    /\ to_setup = <<>>
    /\ idx = 1
    /\ failed = <<>>
    /\ succeeded = <<>>
    /\ result = <<>>
    /\ runs = <<>>
    /\ stdout = <<>>
    /\ exit_status = -1

-----------------------------------------------------------------------------
(* The program: main() *)

Init ==
    /\ root_ok \in BOOLEAN
    /\ fs \in IF root_ok THEN [DirNames -> MainDirs] ELSE {[d \in DirNames |-> RootAbsent]}
    /\ os \in {"Linux", "Windows"}
    /\ argc \in 1..MaxArgc
    /\ apps \in Configs
    /\ pc = "start"
    /\ dots = <<>>
    /\ to_setup = <<>>
    /\ idx = 1
    /\ failed = <<>>
    /\ succeeded = <<>>
    /\ result = <<>>
    /\ runs = <<>>
    /\ stdout = <<>>
    /\ exit_status = -1
    /\ cache = NoCache
    /\ calls = 0
    /\ changes = 0
    /\ sets = 0

\* get_dotfiles_dir with too many arguments: print, then exit(), which raises
\* SystemExit(None) and ends the process with status 0.
TooManyArguments ==
    /\ pc = "start"
    /\ argc \notin {1, 2}
    /\ stdout' = Append(stdout, "Too many arguments!")
    /\ exit_status' = 0
    /\ pc' = "exited"
    /\ UNCHANGED <<fs, root_ok, os, argc, apps, dots, to_setup, idx, failed,
                   succeeded, result, runs, cache, calls, changes, sets>>

\* get_dotfiles_dir with zero or one argument, the root resolving.
GetDotfilesDir ==
    /\ pc = "start"
    /\ argc \in {1, 2}
    /\ root_ok
    /\ pc' = "resolved"
    /\ UNCHANGED <<fs, root_ok, os, argc, apps, dots, to_setup, idx, failed,
                   succeeded, result, runs, stdout, exit_status, cache, calls,
                   changes, sets>>

\* get_dotfiles_dir when resolve(strict=True) raises FileNotFoundError, which
\* nothing catches.
RootNotFound ==
    /\ pc = "start"
    /\ argc \in {1, 2}
    /\ ~root_ok
    /\ pc' = "crashed"
    /\ exit_status' = 1
    /\ UNCHANGED <<fs, root_ok, os, argc, apps, dots, to_setup, idx, failed,
                   succeeded, result, runs, stdout, cache, calls, changes, sets>>

\* main: dots = get_dots(dotfiles_dir)
GetDots ==
    /\ pc = "resolved"
    /\ LET r == CachedGetDots(cache, fs, os)
       IN  /\ dots' = r.value
           /\ cache' = r.cache
    /\ calls' = calls + 1
    /\ pc' = "discovered"
    /\ UNCHANGED <<fs, root_ok, os, argc, apps, to_setup, idx, failed,
                   succeeded, result, runs, stdout, exit_status, changes, sets>>

\* Values a caller holding the Dots may assign to a script property: None, or
\* the path of a script some Dot of the list resolved.
ScriptValues ==
    {None} \cup { dots[d].install_script : d \in 1..Len(dots) }
           \cup { dots[d].setup_script : d \in 1..Len(dots) }

\* A property-setter call on a Dot between get_dots and apply_config.  The
\* Dot is the object the cache holds, so the cache sees the assignment.
SetProperty(newdots) ==
    /\ pc = "discovered"
    /\ sets < MaxSets
    /\ dots' = newdots
    /\ cache' = [cache EXCEPT !.value = newdots]
    /\ sets' = sets + 1
    /\ UNCHANGED <<fs, root_ok, os, argc, apps, pc, to_setup, idx, failed,
                   succeeded, result, runs, stdout, exit_status, calls, changes>>

\* Dot.install_script's setter
SetInstallScript ==
    \E d \in 1..Len(dots), value \in ScriptValues :
        SetProperty([dots EXCEPT ![d].install_script = value])

\* Dot.setup_script's setter
SetSetupScript ==
    \E d \in 1..Len(dots), value \in ScriptValues :
        SetProperty([dots EXCEPT ![d].setup_script = value])

\* Dot.to_install's setter
SetToInstall ==
    \E d \in 1..Len(dots), value \in BOOLEAN :
        SetProperty([dots EXCEPT ![d].to_install = value])

\* apply_config: to_setup = get_dots_from_config(config, dots).  The Dots
\* it marks are the objects the cache holds.
SelectDots ==
    /\ pc = "discovered"
    /\ LET st == GetDotsFromConfig(apps, dots)
       IN  /\ dots' = st.dots
           /\ to_setup' = st.to_setup
           /\ cache' = [cache EXCEPT !.value = st.dots]
    /\ idx' = 1
    /\ failed' = <<>>
    /\ succeeded' = <<>>
    /\ pc' = "setup_dots"
    /\ UNCHANGED <<fs, root_ok, os, argc, apps, result, runs, stdout,
                   exit_status, calls, changes, sets>>

\* setup_dots: one iteration of the loop, dot.setup() returning.
SetupDot ==
    /\ pc = "setup_dots"
    /\ idx <= Len(to_setup)
    /\ \E install_exit \in ExitCodes, setup_exit \in ExitCodes :
          LET d == to_setup[idx]
              out == DotSetup(dots[d], install_exit, setup_exit)
              lists == Classify(failed, succeeded, d, out.value)
          IN  /\ ~out.raised
              /\ runs' = Append(runs, [ dot |-> d, to_install |-> dots[d].to_install,
                                        install |-> out.install, setup |-> out.setup,
                                        ran |-> Invoked(dots[d], out),
                                        outcome |-> out.value ])
              /\ failed' = lists.failed
              /\ succeeded' = lists.succeeded
    /\ idx' = idx + 1
    /\ UNCHANGED <<fs, root_ok, os, argc, apps, pc, dots, to_setup, result,
                   stdout, exit_status, cache, calls, changes, sets>>

\* setup_dots: one iteration of the loop, dot.setup() raising.  Nothing
\* between Dot.setup and the top of main catches the exception.
SetupDotRaises ==
    /\ pc = "setup_dots"
    /\ idx <= Len(to_setup)
    /\ \E install_exit \in ExitCodes, setup_exit \in ExitCodes :
          LET d == to_setup[idx]
              out == DotSetup(dots[d], install_exit, setup_exit)
          IN  /\ out.raised
              /\ runs' = Append(runs, [ dot |-> d, to_install |-> dots[d].to_install,
                                        install |-> out.install, setup |-> out.setup,
                                        ran |-> Invoked(dots[d], out),
                                        outcome |-> "raised" ])
    /\ pc' = "crashed"
    /\ exit_status' = 1
    /\ UNCHANGED <<fs, root_ok, os, argc, apps, dots, to_setup, idx, failed,
                   succeeded, result, stdout, cache, calls, changes, sets>>

\* setup_dots: return failed, succeeded
ApplyConfigReturn ==
    /\ pc = "setup_dots"
    /\ idx > Len(to_setup)
    /\ result' = <<failed, succeeded>>
    /\ pc' = "returned"
    /\ UNCHANGED <<fs, root_ok, os, argc, apps, dots, to_setup, idx, failed,
                   succeeded, runs, stdout, exit_status, cache, calls, changes, sets>>

\* main: postflight(failed, succeeded), then the normal end of the process.
Postflight ==
    /\ pc = "returned"
    /\ stdout' = stdout \o PostflightLines(dots, result[1], result[2])
    /\ exit_status' = 0
    /\ pc' = "done"
    /\ UNCHANGED <<fs, root_ok, os, argc, apps, dots, to_setup, idx, failed,
                   succeeded, result, runs, cache, calls, changes, sets>>

Next ==
    \/ TooManyArguments
    \/ GetDotfilesDir
    \/ RootNotFound
    \/ GetDots
    \/ SetInstallScript
    \/ SetSetupScript
    \/ SetToInstall
    \/ SelectDots
    \/ SetupDot
    \/ SetupDotRaises
    \/ ApplyConfigReturn
    \/ Postflight

Spec == Init /\ [][Next]_vars

-----------------------------------------------------------------------------
(* Discovery alone: get_dots on a root drawn from the bounded inputs *)

InitScan ==
    /\ fs \in { [d \in DirNames |-> IF d = "bash" THEN RootDir(c) ELSE o] :
                  c \in ScanContents,
                  o \in {RootAbsent, RootFile, RootDir(DirOf({<<"setup", "py">>}))} }
    /\ os \in Systems
    /\ pc = "scan"
    /\ dots = <<>>
    /\ cache = NoCache
    /\ calls = 0
    /\ changes = 0
    /\ sets = 0
    /\ Idle

ScanRoot ==
    /\ pc = "scan"
    /\ LET r == CachedGetDots(cache, fs, os)
       IN  /\ dots' = r.value
           /\ cache' = r.cache
    /\ calls' = calls + 1
    /\ pc' = "scanned"
    /\ UNCHANGED <<fs, root_ok, os, argc, apps, to_setup, idx, failed,
                   succeeded, result, runs, stdout, exit_status, changes, sets>>

NextScan == ScanRoot

SpecScan == InitScan /\ [][NextScan]_vars

-----------------------------------------------------------------------------
(* get_dots called repeatedly in one process while the root changes *)

InitCache ==
    /\ fs \in [DirNames -> { RootAbsent,
                             RootDir(DirOf({<<"setup", "sh">>})),
                             RootDir(DirOf({<<"install", "sh">>})) }]
    /\ os \in {"Linux", "Windows"}
    /\ pc = "discovery"
    /\ dots = <<>>
    /\ cache = NoCache
    /\ calls = 0
    /\ changes = 0
    /\ sets = 0
    /\ Idle

CallGetDots ==
    /\ pc = "discovery"
    /\ calls < MaxCalls
    /\ LET r == CachedGetDots(cache, fs, os)
       IN  /\ dots' = r.value
           /\ cache' = r.cache
    /\ calls' = calls + 1
    /\ changes' = 0
    /\ UNCHANGED <<fs, root_ok, os, argc, apps, pc, to_setup, idx, failed,
                   succeeded, result, runs, stdout, exit_status, sets>>

Changed(newfs) ==
    /\ pc = "discovery"
    /\ changes < MaxChanges
    /\ fs' = newfs
    /\ changes' = changes + 1
    /\ UNCHANGED <<root_ok, os, argc, apps, pc, dots, to_setup, idx, failed,
                   succeeded, result, runs, stdout, exit_status, cache, calls,
                   sets>>

\* Something outside the process creates a file in a dot directory.
AddFile ==
    \E d \in DirNames, f \in ChangeNames :
        /\ fs[d].kind = "dir"
        /\ fs[d].content[f].kind = "absent"
        /\ Changed([fs EXCEPT ![d].content[f] = RegFile])

\* Something outside the process removes a file from a dot directory.
RemoveFile ==
    \E d \in DirNames, f \in ChangeNames :
        /\ fs[d].kind = "dir"
        /\ fs[d].content[f].kind = "file"
        /\ Changed([fs EXCEPT ![d].content[f] = NoChild])

\* Something outside the process creates an empty directory under the root.
MakeDir ==
    \E d \in DirNames :
        /\ fs[d].kind = "absent"
        /\ Changed([fs EXCEPT ![d] = RootDir(EmptyDir)])

\* Something outside the process removes a directory and what it holds.
RemoveDir ==
    \E d \in DirNames :
        /\ fs[d].kind = "dir"
        /\ Changed([fs EXCEPT ![d] = RootAbsent])

NextCache ==
    \/ CallGetDots
    \/ AddFile
    \/ RemoveFile
    \/ MakeDir
    \/ RemoveDir

SpecCache == InitCache /\ [][NextCache]_vars

-----------------------------------------------------------------------------
(* Properties of the executor, checked under Spec *)

Range(seq) == { seq[i] : i \in 1..Len(seq) }

Count(seq, x) == Cardinality({ i \in 1..Len(seq) : seq[i] = x })

\* main() got past the Selector.
Selected == pc \in {"setup_dots", "returned", "done"} \/ (pc = "crashed" /\ root_ok)

\* The process is over after having got past the Selector.
Ended == pc = "done" \/ (pc = "crashed" /\ root_ok)

ScriptFailed(run) == run.install = "failed" \/ run.setup = "failed"

\* C1: per-dot failure isolation.  A Dot whose install or setup script exits
\* non-zero is recorded in failed, every Dot of the selection is still
\* executed, and apply_config returns its (failed, succeeded) result.
C1_PerDotFailureIsolation ==
    /\ \A i \in 1..Len(runs) : ScriptFailed(runs[i]) => runs[i].dot \in Range(failed)
    /\ Ended => /\ Len(runs) = Len(to_setup)
                /\ result = <<failed, succeeded>>

\* C2: when a Dot is marked to_install, has an install script, and that
\* script's invocation completes abnormally, the setup script is not invoked
\* in that execution of Dot.setup.
C2_NoSetupAfterFailedInstall ==
    \A i \in 1..Len(runs) :
        ( /\ runs[i].to_install
          /\ dots[runs[i].dot].install_script # None
          /\ runs[i].install = "failed" )
        => runs[i].setup = "not_run"

C2_Witness ==
    \E i \in 1..Len(runs) :
        /\ runs[i].to_install
        /\ dots[runs[i].dot].install_script # None
        /\ dots[runs[i].dot].setup_script # None
        /\ runs[i].install = "failed"

\* C3: once the run is over, every Dot with a setup script whose install step
\* (if any) and setup script completed normally is in the succeeded list of
\* apply_config's result and not in its failed list.
C3_SucceededInResult ==
    Ended =>
        \A i \in 1..Len(runs) :
            ( /\ dots[runs[i].dot].setup_script # None
              /\ runs[i].install # "failed"
              /\ runs[i].setup = "ok" )
            => /\ result # <<>>
               /\ runs[i].dot \in Range(result[2])
               /\ runs[i].dot \notin Range(result[1])

\* C4: a Dot with no resolvable setup script is in neither failed nor
\* succeeded, whatever its to_install flag, its install script and the outcome
\* of that install script.
C4_NoSetupScriptUnclassified ==
    \A d \in 1..Len(dots) :
        dots[d].setup_script = None
        => /\ d \notin Range(failed) \cup Range(succeeded)
           /\ result # <<>> => d \notin Range(result[1]) \cup Range(result[2])

C4_Witness ==
    /\ pc = "returned"
    /\ \E i \in 1..Len(runs) :
          /\ dots[runs[i].dot].setup_script = None
          /\ runs[i].to_install
          /\ runs[i].install = "ok"

\* C5: with two or more positional arguments the program prints the
\* too-many-arguments message and ends at once with a non-success exit status,
\* before any discovery or script invocation.
C5_TooManyArgumentsFails ==
    (argc >= 3 /\ pc # "start")
    => /\ stdout = <<"Too many arguments!">>
       /\ exit_status \notin {-1, 0}
       /\ calls = 0
       /\ runs = <<>>

\* A Dot that no App of the Config names.
Unnamed(d) == \A j \in 1..Len(apps) : apps[j].name # dots[d].name

\* Only named Dots are selected; an unnamed Dot is neither selected nor run.
C7_Excluded ==
    Selected =>
        /\ \A k \in Range(to_setup) : \E j \in 1..Len(apps) : apps[j].name = dots[k].name
        /\ \A d \in 1..Len(dots) :
              Unnamed(d) => /\ d \notin Range(to_setup)
                            /\ \A i \in 1..Len(runs) : runs[i].dot # d

\* No step of apply_config changes the to_install flag of an unnamed Dot.
C7_FlagKept ==
    pc \in {"discovered", "setup_dots", "returned"} /\ sets' = sets
    => \A d \in 1..Len(dots) : Unnamed(d) => dots'[d].to_install = dots[d].to_install

\* C7: the Selector's output holds only Dots named by some App of the Config;
\* a Dot no App names is left out and is never executed (C7_Excluded), and
\* apply_config leaves its to_install flag as it was (C7_FlagKept).
C7_OnlyConfiguredDots == [](C7_Excluded) /\ [][C7_FlagKept]_vars

C7_Witness ==
    /\ pc = "done"
    /\ runs # <<>>
    /\ \E d \in 1..Len(dots) :
          /\ Unnamed(d)
          /\ dots[d].install_script # None
          /\ dots[d].to_install
    /\ \E j \in 1..Len(apps) : ~apps[j].to_install

\* The flag of the last App of the Config that names the Dot.
LastFlag(name) ==
    LET last == CHOOSE j \in 1..Len(apps) :
                    /\ apps[j].name = name
                    /\ \A k \in (j + 1)..Len(apps) : apps[k].name # name
    IN  apps[last].to_install

\* C10: a Dot named by k Apps is k times in the Selector's output, in
\* discovery order, the Executor runs Dot.setup on it k times, and each of
\* those executions sees the to_install flag of the last App naming it.
C10_DuplicateApps ==
    Selected =>
        /\ \A d \in 1..Len(dots) :
              Count(to_setup, d) = Cardinality({ j \in 1..Len(apps) : apps[j].name = dots[d].name })
        /\ \A a, b \in 1..Len(to_setup) : a <= b => to_setup[a] <= to_setup[b]
        /\ \A i \in 1..Len(runs) : runs[i].to_install = LastFlag(dots[runs[i].dot].name)
        /\ Ended => \A d \in 1..Len(dots) :
                        Cardinality({ i \in 1..Len(runs) : runs[i].dot = d }) = Count(to_setup, d)

-----------------------------------------------------------------------------
(* Properties of discovery, checked under SpecScan *)

NativeOf(system) == IF system = "Windows" THEN "ps1" ELSE "sh"

\* What the claim says a directory resolves an action to: the name of a file
\* of the directory, or the empty name for None.
Resolved(content, action, system) ==
    LET py == content[<<action, "py">>].kind = "file"
        native == content[<<action, NativeOf(system)>>].kind = "file"
    IN  IF py /\ ~native THEN <<action, "py">>
        ELSE IF native /\ ~py THEN <<action, NativeOf(system)>>
        ELSE <<>>

\* C6: for install and for setup, on every system, a Dot's script is the one
\* regular file of its directory named <action>.py or <action>.<native>
\* (ps1 on Windows, sh elsewhere); with no such file, or with both, it is None.
C6_ScriptResolution ==
    pc = "scanned" =>
        \A i \in 1..Len(dots) :
            \A action \in {"install", "setup"} :
                LET file == Resolved(fs[dots[i].name].content, action, os)
                    script == IF action = "install" THEN dots[i].install_script
                              ELSE dots[i].setup_script
                IN  script = IF file = <<>> THEN None ELSE <<dots[i].name>> \o file

\* One valid setup file and two install candidates: setup resolved, install None.
C6_Witness ==
    /\ pc = "scanned"
    /\ os = "Darwin"
    /\ \E i \in 1..Len(dots) :
          /\ dots[i].setup_script = <<dots[i].name, "setup", "sh">>
          /\ dots[i].install_script = None
          /\ fs[dots[i].name].content[<<"install", "sh">>].kind = "file"
          /\ fs[dots[i].name].content[<<"install", "py">>].kind = "file"

\* A name whose stem is "setup": setup itself, or setup.<extension>.
StemIsSetup(f) == f = <<"setup">> \/ (Len(f) = 2 /\ f[1] = "setup" /\ f[2] # "")

\* C8: get_dots builds a Dot for a sub-directory of the root if and only if
\* the sub-directory directly holds a regular file whose stem is "setup".
C8_DotIffSetupFile ==
    pc = "scanned" =>
        \A d \in DirNames :
            /\ Cardinality({ i \in 1..Len(dots) : dots[i].name = d }) <= 1
            /\ (\E i \in 1..Len(dots) : dots[i].name = d)
               <=> /\ fs[d].kind = "dir"
                   /\ \E f \in ChildNames :
                         fs[d].content[f].kind = "file" /\ StemIsSetup(f)

\* A directory with an install script, a setup.tar.gz and a setup file one
\* level deeper is no Dot.
C8_Witness ==
    /\ pc = "scanned"
    /\ fs["bash"].content[<<"install", "sh">>].kind = "file"
    /\ fs["bash"].content[<<"setup", "tar", "gz">>].kind = "file"
    /\ fs["bash"].content[<<"nested">>] = SubDir({<<"setup", "sh">>})
    /\ \A i \in 1..Len(dots) : dots[i].name # "bash"

-----------------------------------------------------------------------------
(* Properties of the cache, checked under SpecCache *)

\* C9: what a get_dots call returns is computed from the contents the root
\* has at the time of that call.
C9_CallSeesCurrentContents ==
    (calls >= 1 /\ changes = 0) => dots = ScanDots(fs, os)

====
